---- MODULE Spec2Model ----
(***************************************************************************)
(* Model of fernferret/envy: the environment overlay for pflag flag sets.  *)
(* Strings are TLA+ strings; the string functions of the Go standard       *)
(* library that envy.go calls are computed character by character.         *)
(***************************************************************************)
EXTENDS Integers, Sequences, FiniteSets, TLC

VARIABLES
    flags,      \* the flag set: flag name -> pflag.Flag
    env,        \* the process environment: variable name -> value
    passes,     \* ParseFlagSet passes made so far
    pfxUsed,    \* the pfx argument of the latest ParseFlagSet pass
    lookedUp,   \* per flag, the envName the latest pass computed (<<>>: none)
    err,        \* the value the latest call panicked with, NoErr if it returned
    failed,     \* the function that panicked, "" while none has
    args        \* the command line pflag.Parse was given, <<>> before it ran

vars == <<flags, env, passes, pfxUsed, lookedUp, err, failed, args>>

(***************************************************************************)
(* Bounds of the model.                                                    *)
(***************************************************************************)
\* ParseFlagSet passes in one run
MaxPasses == 2
\* environment variables set in the process environment
MaxEnvVars == 1
\* flags given a value on the command line of the final parse
MaxArgs == 1
\* annotations written to the flags of the flag set in one run
MaxAnnotations == 2

(***************************************************************************)
(* Constants of envy.go.                                                   *)
(***************************************************************************)
envyDisable == "envy_disable"
envyCustom == "envy_custom"
ErrFlagNotExists == "flag does not exist"
ErrCustomAlreadyDefined == "custom flag already exists"
ErrInvalidBoolFlagValue == "bool flag got value that was't 'true' or 'false'"
\* no panic
NoErr == "nil"

(***************************************************************************)
(* strings.ToUpper, strings.ReplaceAll, strings.TrimSuffix                 *)
(***************************************************************************)
LowerLetters == "abcdefghijklmnopqrstuvwxyz"
UpperLetters == "ABCDEFGHIJKLMNOPQRSTUVWXYZ"

Char(s, i) == SubSeq(s, i, i)

\* the uppercase letter of every lowercase letter
UpperOf ==
    [c \in {Char(LowerLetters, i) : i \in 1..26} |->
        Char(UpperLetters, CHOOSE i \in 1..26 : Char(LowerLetters, i) = c)]

UpperChar(c) == IF c \in DOMAIN UpperOf THEN UpperOf[c] ELSE c

RECURSIVE ToUpper(_)
ToUpper(s) ==
    IF s = "" THEN "" ELSE UpperChar(Char(s, 1)) \o ToUpper(Tail(s))

\* strings.ReplaceAll(s, old, new) for a one-character old
RECURSIVE ReplaceAll(_, _, _)
ReplaceAll(s, old, new) ==
    IF s = "" THEN ""
    ELSE (IF Char(s, 1) = old THEN new ELSE Char(s, 1))
             \o ReplaceAll(Tail(s), old, new)

\* strings.TrimSuffix removes ONE occurrence of the suffix, when present
TrimSuffix(s, suffix) ==
    IF Len(s) >= Len(suffix)
       /\ SubSeq(s, Len(s) - Len(suffix) + 1, Len(s)) = suffix
    THEN SubSeq(s, 1, Len(s) - Len(suffix))
    ELSE s

(***************************************************************************)
(* The flag values envy hands a string to: strconv.ParseBool, and the      *)
(* Set method of the pflag value of each declared type.                    *)
(***************************************************************************)
BoolTrueLiterals == {"1", "t", "T", "TRUE", "true", "True"}
BoolFalseLiterals == {"0", "f", "F", "FALSE", "false", "False"}

\* strconv.ParseBool(val) returns no error
ParseBoolOk(val) == val \in BoolTrueLiterals \cup BoolFalseLiterals

Digits == "0123456789"
IsDigit(c) == \E i \in 1..10 : Char(Digits, i) = c

\* a decimal literal without sign and without leading zero
IsDecimal(s) ==
    /\ Len(s) >= 1
    /\ \A i \in 1..Len(s) : IsDigit(Char(s, i))
    /\ (Len(s) > 1 => Char(s, 1) # "0")

\* f.Value.Set(val) returns no error
SetOk(type, val) ==
    CASE type = "bool" -> ParseBoolOk(val)
      [] type = "int" -> IsDecimal(val)
      [] OTHER -> TRUE

\* f.Value.String() after a successful f.Value.Set(val)
SetResult(type, val) ==
    CASE type = "bool" -> (IF val \in BoolTrueLiterals THEN "true" ELSE "false")
      [] OTHER -> val

\* f.Value.Set(val): the flag after the call; a rejected val leaves the value
ValueSet(f, val) ==
    IF SetOk(f.Type, val)
    THEN [f EXCEPT !.Value = SetResult(f.Type, val)]
    ELSE f

(***************************************************************************)
(* The flag set: the flags of cmd/example/main.go that show the three      *)
(* kinds of setter (bool, string, int).                                    *)
(***************************************************************************)
NilAnnotations == [isNil |-> TRUE, m |-> <<>>]

DeclareFlag(name, type, value, usage) ==
    [Name |-> name, Type |-> type, Value |-> value, DefValue |-> value,
     Usage |-> usage, Changed |-> FALSE, Annotations |-> NilAnnotations]

Declared ==
    [n \in {"url", "once", "count-fancy"} |->
        CASE n = "url" ->
               DeclareFlag("url", "string", "http://127.0.0.1:8080", "set the url")
          [] n = "once" ->
               DeclareFlag("once", "bool", "false", "perform the thing once and exit")
          [] OTHER ->
               DeclareFlag("count-fancy", "int", "7", "a fancy count")]

FlagNames == DOMAIN Declared

\* fs.VisitAll visits the flags in lexicographical order of their names
VisitOrder == <<"count-fancy", "once", "url">>

(***************************************************************************)
(* Inputs.                                                                 *)
(***************************************************************************)
Prefixes == {"", "foo", "FOO_", "foo__"}
NameArgs == FlagNames \cup {"foo"}
EnvNameArgs == {"count-fancy", "foo_once"}
EnvNames == {"FOO_ONCE", "FOO_COUNT_FANCY", "COUNT_FANCY"}
EnvValues == {"1", "2", "yay", ""}
ArgValues == {"0"}

Environments ==
    UNION {[S -> EnvValues] : S \in {T \in SUBSET EnvNames : Cardinality(T) <= MaxEnvVars}}

CommandLines ==
    UNION {[S -> ArgValues] : S \in {T \in SUBSET FlagNames : Cardinality(T) <= MaxArgs}}

(***************************************************************************)
(* Annotations map of a flag.                                              *)
(***************************************************************************)
HasAnnotation(f, key) == key \in DOMAIN f.Annotations.m

\* f.Annotations[key] = value, on a map that is not nil
PutAnnotation(ann, key, value) ==
    [isNil |-> FALSE,
     m |-> [k \in (DOMAIN ann.m) \cup {key} |->
               IF k = key THEN value ELSE ann.m[k]]]

\* make(map[string][]string)
MakeAnnotations == [isNil |-> FALSE, m |-> <<>>]

(***************************************************************************)
(* ParseFlagSet                                                            *)
(***************************************************************************)
\* variant: the transformed prefix carries no separator
NormalizePfxNoSeparator(pfx) ==
    IF pfx # "" THEN TrimSuffix(ToUpper(pfx), "_") ELSE pfx

\* the prefix as ParseFlagSet transforms it before the visit
NormalizePfx(pfx) ==
    IF pfx # "" THEN TrimSuffix(ToUpper(pfx), "_") \o "_" ELSE pfx

\* variant: the prefix is put before a custom name too
EnvNamePrefixed(f, pfx) ==
    IF HasAnnotation(f, envyCustom)
    THEN pfx \o f.Annotations.m[envyCustom][1]
    ELSE pfx \o ReplaceAll(ToUpper(f.Name), "-", "_")

\* the environment variable name of a flag that is not disabled
EnvName(f, pfx) ==
    IF HasAnnotation(f, envyCustom)
    THEN f.Annotations.m[envyCustom][1]
    ELSE pfx \o ReplaceAll(ToUpper(f.Name), "-", "_")

\* os.LookupEnv
LookupEnv(e, name) == name \in DOMAIN e

\* variants of the callback: one that skips no disabled flag (skip = FALSE),
\* one that validates the value of a flag of any type as a boolean (anyType),
\* one that does not call the setter (set = FALSE), one that stores the
\* environment value as the default shown in help (def), one that shows the
\* name alone in the usage of a flag whose variable is set (show = FALSE)
VisitFlagVariant(f, pfx, e, skip, anyType, set, def, show) ==
    IF skip /\ HasAnnotation(f, envyDisable)
    THEN [flag |-> f, panic |-> FALSE, looked |-> <<>>]
    ELSE LET envName == EnvName(f, pfx) IN
         IF LookupEnv(e, envName)
         THEN LET val == e[envName]
                  envUsage == IF show THEN envName \o " " \o val ELSE envName
                  g == IF set THEN ValueSet(f, val) ELSE f
                  h == IF def THEN [g EXCEPT !.DefValue = val] ELSE g
              IN IF (anyType \/ f.Type = "bool") /\ ~ParseBoolOk(val)
                 THEN [flag |-> f, panic |-> TRUE, looked |-> <<envName>>]
                 ELSE [flag |-> [h EXCEPT
                                   !.Usage = f.Usage \o " [" \o envUsage \o "]"],
                       panic |-> FALSE, looked |-> <<envName>>]
         ELSE [flag |-> [f EXCEPT !.Usage = f.Usage \o " [" \o envName \o "]"],
               panic |-> FALSE, looked |-> <<envName>>]

VisitFlagNoSkip(f, pfx, e) ==
    VisitFlagVariant(f, pfx, e, FALSE, FALSE, TRUE, FALSE, TRUE)
VisitFlagAnyType(f, pfx, e) ==
    VisitFlagVariant(f, pfx, e, TRUE, TRUE, TRUE, FALSE, TRUE)
VisitFlagNoSet(f, pfx, e) ==
    VisitFlagVariant(f, pfx, e, TRUE, FALSE, FALSE, FALSE, TRUE)
VisitFlagSetsDefault(f, pfx, e) ==
    VisitFlagVariant(f, pfx, e, TRUE, FALSE, TRUE, TRUE, TRUE)
VisitFlagNameOnly(f, pfx, e) ==
    VisitFlagVariant(f, pfx, e, TRUE, FALSE, TRUE, FALSE, FALSE)

\* the callback ParseFlagSet hands to fs.VisitAll, on one flag; pfx is the
\* transformed prefix
VisitFlag(f, pfx, e) ==
    IF HasAnnotation(f, envyDisable)
    THEN [flag |-> f, panic |-> FALSE, looked |-> <<>>]
    ELSE LET envName == EnvName(f, pfx) IN
         IF LookupEnv(e, envName)
         THEN LET val == e[envName]
                  envUsage == envName \o " " \o val
              IN IF f.Type = "bool" /\ ~ParseBoolOk(val)
                 THEN [flag |-> f, panic |-> TRUE, looked |-> <<envName>>]
                 ELSE [flag |-> [ValueSet(f, val) EXCEPT
                                   !.Usage = f.Usage \o " [" \o envUsage \o "]"],
                       panic |-> FALSE, looked |-> <<envName>>]
         ELSE [flag |-> [f EXCEPT !.Usage = f.Usage \o " [" \o envName \o "]"],
               panic |-> FALSE, looked |-> <<envName>>]

\* variant: a visit the callback panics in undoes what it wrote to the flags
\* visited before
RECURSIVE VisitAllRollsBack(_, _, _, _, _)
VisitAllRollsBack(i, fs, looked, pfx, e) ==
    IF i > Len(VisitOrder)
    THEN [flags |-> fs, looked |-> looked, err |-> NoErr]
    ELSE LET n == VisitOrder[i]
             r == VisitFlag(fs[n], pfx, e)
         IN IF r.panic
            THEN [flags |-> fs, looked |-> [looked EXCEPT ![n] = r.looked],
                  err |-> ErrInvalidBoolFlagValue]
            ELSE LET rest == VisitAllRollsBack(i + 1, [fs EXCEPT ![n] = r.flag],
                                               [looked EXCEPT ![n] = r.looked],
                                               pfx, e)
                 IN IF rest.err = NoErr THEN rest
                    ELSE [rest EXCEPT !.flags = fs]

\* fs.VisitAll from the i-th flag on; a panic of the callback ends the visit
RECURSIVE VisitAll(_, _, _, _, _)
VisitAll(i, fs, looked, pfx, e) ==
    IF i > Len(VisitOrder)
    THEN [flags |-> fs, looked |-> looked, err |-> NoErr]
    ELSE LET n == VisitOrder[i]
             r == VisitFlag(fs[n], pfx, e)
         IN IF r.panic
            THEN [flags |-> fs, looked |-> [looked EXCEPT ![n] = r.looked],
                  err |-> ErrInvalidBoolFlagValue]
            ELSE VisitAll(i + 1, [fs EXCEPT ![n] = r.flag],
                          [looked EXCEPT ![n] = r.looked], pfx, e)

NotLooked == [n \in FlagNames |-> <<>>]

ParseFlagSet(pfx) ==
    /\ LET r == VisitAll(1, flags, NotLooked, NormalizePfx(pfx), env) IN
         /\ flags' = r.flags
         /\ lookedUp' = r.looked
         /\ err' = r.err
         /\ failed' = IF r.err = NoErr THEN "" ELSE "ParseFlagSet"
    /\ passes' = passes + 1
    /\ pfxUsed' = pfx
    /\ UNCHANGED <<env, args>>

(***************************************************************************)
(* DisableOnFlagSet, SetEnvNameOnFlagSet                                   *)
(***************************************************************************)
\* variant: a name that is not declared is declared, disabled
DisableDeclaresMissing(name) ==
    /\ LET f == IF name \in DOMAIN flags THEN flags[name]
                ELSE DeclareFlag(name, "bool", "false", "")
           ann == IF f.Annotations.isNil THEN MakeAnnotations ELSE f.Annotations
       IN flags' = [n \in (DOMAIN flags) \cup {name} |->
                      IF n = name
                      THEN [f EXCEPT !.Annotations =
                               PutAnnotation(ann, envyDisable, <<"true">>)]
                      ELSE flags[n]]
    /\ UNCHANGED <<err, failed>>
    /\ UNCHANGED <<env, passes, pfxUsed, lookedUp, args>>

DisableOnFlagSet(name) ==
    /\ IF name \notin DOMAIN flags
       THEN /\ err' = ErrFlagNotExists
            /\ failed' = "DisableOnFlagSet"
            /\ UNCHANGED flags
       ELSE LET f == flags[name]
                ann == IF f.Annotations.isNil THEN MakeAnnotations ELSE f.Annotations
            IN /\ flags' = [flags EXCEPT ![name].Annotations =
                               PutAnnotation(ann, envyDisable, <<"true">>)]
               /\ UNCHANGED <<err, failed>>
    /\ UNCHANGED <<env, passes, pfxUsed, lookedUp, args>>

\* the name SetEnvNameOnFlagSet stores
NormalizeEnvName(envName) == ToUpper(ReplaceAll(envName, "-", "_"))

\* variant: a second custom name replaces the first
SetEnvNameOverwrites(name, envName) ==
    /\ IF name \notin DOMAIN flags
       THEN /\ err' = ErrFlagNotExists
            /\ failed' = "SetEnvNameOnFlagSet"
            /\ UNCHANGED flags
       ELSE LET f == flags[name]
                ann == IF f.Annotations.isNil THEN MakeAnnotations ELSE f.Annotations
            IN /\ flags' = [flags EXCEPT ![name].Annotations =
                               PutAnnotation(ann, envyCustom,
                                             <<NormalizeEnvName(envName)>>)]
               /\ UNCHANGED <<err, failed>>
    /\ UNCHANGED <<env, passes, pfxUsed, lookedUp, args>>

SetEnvNameOnFlagSet(name, envName) ==
    /\ IF name \notin DOMAIN flags
       THEN /\ err' = ErrFlagNotExists
            /\ failed' = "SetEnvNameOnFlagSet"
            /\ UNCHANGED flags
       ELSE LET f == flags[name] IN
            IF ~f.Annotations.isNil /\ HasAnnotation(f, envyCustom)
            THEN /\ err' = ErrCustomAlreadyDefined
                 /\ failed' = "SetEnvNameOnFlagSet"
                 /\ UNCHANGED flags
            ELSE LET ann == IF f.Annotations.isNil THEN MakeAnnotations
                            ELSE f.Annotations
                 IN /\ flags' = [flags EXCEPT ![name].Annotations =
                                    PutAnnotation(ann, envyCustom,
                                                  <<NormalizeEnvName(envName)>>)]
                    /\ UNCHANGED <<err, failed>>
    /\ UNCHANGED <<env, passes, pfxUsed, lookedUp, args>>

(***************************************************************************)
(* pflag.Parse: the final parse of the command line, after which the       *)
(* program reads its flags.                                                *)
(***************************************************************************)
\* the flags after the arguments of cl from the i-th flag on are set
RECURSIVE SetArgs(_, _, _)
SetArgs(i, fs, cl) ==
    IF i > Len(VisitOrder)
    THEN fs
    ELSE LET n == VisitOrder[i] IN
         IF n \notin DOMAIN cl
         THEN SetArgs(i + 1, fs, cl)
         ELSE SetArgs(i + 1,
                      [fs EXCEPT ![n] = [ValueSet(fs[n], cl[n]) EXCEPT
                                            !.Changed = TRUE]],
                      cl)

\* the command lines whose every value the flag's setter accepts
ValidCommandLines ==
    {cl \in CommandLines : \A n \in DOMAIN cl : SetOk(Declared[n].Type, cl[n])}

PflagParse(cl) ==
    /\ flags' = SetArgs(1, flags, cl)
    /\ args' = <<cl>>
    /\ UNCHANGED <<env, passes, pfxUsed, lookedUp, err, failed>>

(***************************************************************************)
(* Specification                                                           *)
(***************************************************************************)
Init ==
    /\ flags = Declared
    /\ env \in Environments
    /\ passes = 0
    /\ pfxUsed = ""
    /\ lookedUp = NotLooked
    /\ err = NoErr
    /\ failed = ""
    /\ args = <<>>

\* a panic ends the process, and so does the program after its final parse
Running == err = NoErr /\ args = <<>>

\* the annotations the flags carry
AnnotationCount ==
    Cardinality({x \in FlagNames \X {envyDisable, envyCustom} :
                    HasAnnotation(flags[x[1]], x[2])})

\* the call writes no annotation beyond the bound of the model
WithinBound(name, key) ==
    IF name \in DOMAIN flags
    THEN IF HasAnnotation(flags[name], key)
         THEN TRUE
         ELSE AnnotationCount < MaxAnnotations
    ELSE TRUE

\* a program calls ParseFlagSet with one prefix
SamePrefix(pfx) == passes = 0 \/ pfx = pfxUsed

\* Disable and SetEnvName "must be called before the call to envy.Parse()"
BeforeParse == passes = 0

Next ==
    \/ \E pfx \in Prefixes :
          Running /\ passes < MaxPasses /\ SamePrefix(pfx) /\ ParseFlagSet(pfx)
    \/ \E name \in NameArgs :
          Running /\ BeforeParse /\ WithinBound(name, envyDisable)
                  /\ DisableOnFlagSet(name)
    \/ \E name \in NameArgs, envName \in EnvNameArgs :
          Running /\ BeforeParse /\ WithinBound(name, envyCustom)
                  /\ SetEnvNameOnFlagSet(name, envName)
    \/ \E cl \in ValidCommandLines :
          Running /\ passes >= 1 /\ PflagParse(cl)

Spec == Init /\ [][Next]_vars

(***************************************************************************)
(* Vocabulary of the properties                                            *)
(***************************************************************************)
\* the step is a ParseFlagSet pass (no other call counts passes)
PassStep == passes' = passes + 1

Disabled(f) == HasAnnotation(f, envyDisable)
HasCustom(f) == HasAnnotation(f, envyCustom)
CustomName(f) == f.Annotations.m[envyCustom][1]

\* the flag names uppercased with '-' replaced by '_', written out
UpperSnake ==
    [n \in FlagNames |->
        CASE n = "url" -> "URL"
          [] n = "once" -> "ONCE"
          [] OTHER -> "COUNT_FANCY"]

\* the names SetEnvName is to store for its envName arguments, written out
StoredName ==
    [e \in EnvNameArgs |-> IF e = "count-fancy" THEN "COUNT_FANCY" ELSE "FOO_ONCE"]

HasTrailingUnderscore(p) == Len(p) >= 1 /\ Char(p, Len(p)) = "_"

\* the pass whose step this is looked the flag n up and did not panic on it
Processed(n) ==
    /\ lookedUp'[n] # <<>>
    /\ ~(/\ flags[n].Type = "bool"
         /\ LookupEnv(env, lookedUp'[n][1])
         /\ ~ParseBoolOk(env[lookedUp'[n][1]]))

\* the program made its ParseFlagSet passes and then its final parse
Parsed == args # <<>> /\ passes >= 1

BadBoolEnv(pfx) ==
    \E n \in FlagNames :
        /\ ~Disabled(flags[n])
        /\ flags[n].Type = "bool"
        /\ LookupEnv(env, EnvName(flags[n], NormalizePfx(pfx)))
        /\ ~ParseBoolOk(env[EnvName(flags[n], NormalizePfx(pfx))])

C2_FailsIffBadBool ==
    [][PassStep =>
         /\ (err' = ErrInvalidBoolFlagValue) <=> BadBoolEnv(pfxUsed')
         /\ (err' = NoErr) <=> ~BadBoolEnv(pfxUsed')
         /\ (failed' = "ParseFlagSet") <=> BadBoolEnv(pfxUsed')]_vars

\* a pass panicked on a bool flag, after it looked up a malformed value of a
\* flag of another type without panicking
C2_Witness ==
    /\ err = ErrInvalidBoolFlagValue
    /\ failed = "ParseFlagSet"
    /\ \E n \in FlagNames :
          /\ flags[n].Type = "bool"
          /\ lookedUp[n] # <<>>
          /\ LookupEnv(env, lookedUp[n][1])
          /\ ~ParseBoolOk(env[lookedUp[n][1]])
    /\ \E n \in FlagNames :
          /\ flags[n].Type # "bool"
          /\ lookedUp[n] # <<>>
          /\ LookupEnv(env, lookedUp[n][1])
          /\ ~SetOk(flags[n].Type, env[lookedUp[n][1]])
          /\ flags[n].Value = flags[n].DefValue

(***************************************************************************)
(* C3: a ParseFlagSet pass leaves the value and the usage of every flag    *)
(* that carries the disable annotation unchanged, and looks nothing up for *)
(* it, whatever the prefix, the environment and its custom name.           *)
(***************************************************************************)
C3_DisabledUntouched ==
    [][PassStep =>
         \A n \in FlagNames :
            Disabled(flags[n]) =>
               /\ flags'[n] = flags[n]
               /\ lookedUp'[n] = <<>>]_vars

\* two passes skipped a disabled flag whose custom-named variable is set
C3_Witness ==
    /\ passes = 2
    /\ \E n \in FlagNames :
          /\ Disabled(flags[n])
          /\ HasCustom(flags[n])
          /\ LookupEnv(env, CustomName(flags[n]))
          /\ lookedUp[n] = <<>>
          /\ flags[n].Usage = Declared[n].Usage
          /\ flags[n].Value = Declared[n].Value

(***************************************************************************)
(* Custom names                                                            *)
(***************************************************************************)
\* the environment e without the variables of names
Without(e, names) == [v \in (DOMAIN e) \ names |-> e[v]]

\* prefix + "_" + x as written, and as a pass with a prefix derives it
PrefixedNames(pfx, x) ==
    {pfx \o "_" \o x} \cup (IF pfx = "" THEN {} ELSE {NormalizePfx(pfx) \o x})

\* what a pass with prefix pfx does to the custom-named flag n, against what
\* it would do without the variables of names and with every other prefix
CustomNameLookup(n, pfx, names) ==
    LET f == flags[n]
        c == CustomName(f)
        r == VisitFlag(f, NormalizePfx(pfx), env)
    IN /\ c \in {StoredName[e] : e \in EnvNameArgs}
       /\ lookedUp'[n] # <<>> => lookedUp'[n] = <<c>>
       /\ err' = NoErr => lookedUp'[n] # <<>>
       /\ Processed(n) =>
             /\ flags'[n].Usage =
                   f.Usage \o " [" \o c
                     \o (IF LookupEnv(env, c) THEN " " \o env[c] ELSE "") \o "]"
             /\ flags'[n].Value =
                   IF LookupEnv(env, c) /\ SetOk(f.Type, env[c])
                   THEN SetResult(f.Type, env[c]) ELSE f.Value
       /\ \A q \in Prefixes : VisitFlag(f, NormalizePfx(q), env) = r
       /\ VisitFlag(f, NormalizePfx(pfx), Without(env, names)) = r

(***************************************************************************)
(* C4 (as stated): for a flag with a custom name that is not disabled, a   *)
(* pass with any prefix looks up exactly the stored custom name; the value *)
(* applied and the name shown are the same for every prefix, and a         *)
(* variable named prefix_customName or prefix_flagName has no effect.      *)
(***************************************************************************)
C4_PrefixedNamesNoEffect ==
    [][PassStep =>
         \A n \in FlagNames :
            (~Disabled(flags[n]) /\ HasCustom(flags[n])) =>
               CustomNameLookup(n, pfxUsed',
                   PrefixedNames(pfxUsed', CustomName(flags[n]))
                     \cup PrefixedNames(pfxUsed', UpperSnake[n]))]_vars

(***************************************************************************)
(* C4 (amended): for a flag with a custom name that is not disabled, a     *)
(* pass with any prefix looks up exactly the stored custom name; the value *)
(* applied and the name shown are the same for every prefix, and a         *)
(* variable named prefix_customName or prefix_flagName has no effect       *)
(* unless that name is the stored custom name itself.                      *)
(***************************************************************************)
C4_CustomNameExact ==
    [][PassStep =>
         \A n \in FlagNames :
            (~Disabled(flags[n]) /\ HasCustom(flags[n])) =>
               CustomNameLookup(n, pfxUsed',
                   (PrefixedNames(pfxUsed', CustomName(flags[n]))
                      \cup PrefixedNames(pfxUsed', UpperSnake[n]))
                     \ {CustomName(flags[n])})]_vars

\* a pass with a prefix left a custom-named flag alone although the variable
\* of its prefixed flag name is set
C4_Witness ==
    /\ passes = 1
    /\ pfxUsed # ""
    /\ err = NoErr
    /\ \E n \in FlagNames :
          /\ HasCustom(flags[n])
          /\ lookedUp[n] = <<"COUNT_FANCY">>
          /\ LookupEnv(env, NormalizePfx(pfxUsed) \o UpperSnake[n])
          /\ flags[n].Value = Declared[n].Value
          /\ flags[n].Usage = Declared[n].Usage \o " [COUNT_FANCY]"

(***************************************************************************)
(* C5: a flag carries at most one custom name, the normalized envName of   *)
(* the first SetEnvName that succeeded on it: no call changes or removes   *)
(* it, and every later SetEnvName on the flag panics with                  *)
(* ErrCustomAlreadyDefined and changes nothing, whatever its arguments and *)
(* whether or not the flag was disabled in between.                        *)
(***************************************************************************)
C5_CustomNameOnce ==
    [][/\ \A n \in FlagNames :
            /\ HasCustom(flags[n]) =>
                  /\ HasCustom(flags'[n])
                  /\ flags'[n].Annotations.m[envyCustom]
                        = flags[n].Annotations.m[envyCustom]
            /\ HasCustom(flags'[n]) => Len(flags'[n].Annotations.m[envyCustom]) = 1
       /\ \A n \in FlagNames, e \in EnvNameArgs :
            SetEnvNameOnFlagSet(n, e) =>
               IF HasCustom(flags[n])
               THEN /\ err' = ErrCustomAlreadyDefined
                    /\ failed' = "SetEnvNameOnFlagSet"
                    /\ flags' = flags
               ELSE /\ err' = NoErr
                    /\ flags'[n].Annotations.m[envyCustom] = <<StoredName[e]>>]_vars

\* a SetEnvName panicked on a flag that had its custom name and was then
\* disabled
C5_Witness ==
    /\ err = ErrCustomAlreadyDefined
    /\ failed = "SetEnvNameOnFlagSet"
    /\ \E n \in FlagNames :
          /\ Disabled(flags[n])
          /\ HasCustom(flags[n])
          /\ flags[n].Annotations.m[envyCustom] = <<"COUNT_FANCY">>

(***************************************************************************)
(* C6: Disable and SetEnvName with a name that is not declared panic with  *)
(* ErrFlagNotExists and leave the flag set as it was: no flag is added, no *)
(* annotation, value or usage changes.                                     *)
(***************************************************************************)
C6_MissingFlag ==
    [][\A name \in NameArgs \ FlagNames :
          /\ DisableOnFlagSet(name) =>
                /\ err' = ErrFlagNotExists /\ failed' = "DisableOnFlagSet"
                /\ flags' = flags
          /\ \A e \in EnvNameArgs :
                SetEnvNameOnFlagSet(name, e) =>
                   /\ err' = ErrFlagNotExists /\ failed' = "SetEnvNameOnFlagSet"
                   /\ flags' = flags]_vars

\* Disable panicked on a name that is not declared, in a flag set that
\* carries annotations
C6_Witness ==
    /\ err = ErrFlagNotExists
    /\ failed = "DisableOnFlagSet"
    /\ AnnotationCount > 0
    /\ DOMAIN flags = FlagNames

(***************************************************************************)
(* C7: a pass gives every flag it processes the usage                      *)
(* "<usage> [<envName>]" and leaves its value when the variable is not     *)
(* set, and the usage "<usage> [<envName> <rawValue>]" when it is set      *)
(* (also to the empty string), with the value the setter makes of rawValue *)
(* when the setter accepts it.                                             *)
(***************************************************************************)
C7_UsageAndValue ==
    [][PassStep =>
         \A n \in FlagNames :
            (~Disabled(flags[n]) /\ Processed(n)) =>
               LET f == flags[n]
                   envName == lookedUp'[n][1]
               IN IF LookupEnv(env, envName)
                  THEN /\ flags'[n].Usage =
                             f.Usage \o " [" \o envName \o " " \o env[envName] \o "]"
                       /\ SetOk(f.Type, env[envName]) =>
                             flags'[n].Value = SetResult(f.Type, env[envName])
                  ELSE /\ flags'[n].Usage = f.Usage \o " [" \o envName \o "]"
                       /\ flags'[n].Value = f.Value]_vars

\* a pass set the bool flag from the variable FOO_ONCE=1
C7_Witness ==
    /\ passes = 1
    /\ err = NoErr
    /\ flags["once"].Usage = "perform the thing once and exit [FOO_ONCE 1]"
    /\ flags["once"].Value = "true"
    /\ flags["url"].Usage = "set the url [FOO_URL]"

(***************************************************************************)
(* C8: for a flag without annotations a pass derives the same environment  *)
(* variable name with all prefixes that differ only in letter case and in  *)
(* the number of trailing underscores.                                     *)
(***************************************************************************)
RECURSIVE TrimAllUnderscores(_)
TrimAllUnderscores(s) ==
    IF HasTrailingUnderscore(s) THEN TrimAllUnderscores(SubSeq(s, 1, Len(s) - 1))
    ELSE s

SamePrefixClass(p, q) ==
    TrimAllUnderscores(ToUpper(p)) = TrimAllUnderscores(ToUpper(q))

C8_PrefixNormalization ==
    [][PassStep =>
         \A n \in FlagNames :
            (DOMAIN flags[n].Annotations.m = {} /\ lookedUp'[n] # <<>>) =>
               \A q \in Prefixes :
                  SamePrefixClass(q, pfxUsed') =>
                     lookedUp'[n] = <<EnvName(flags[n], NormalizePfx(q))>>]_vars

(***************************************************************************)
(* C9: for a flag without annotations a pass with the empty prefix derives *)
(* the flag name uppercased with '-' replaced by '_', and a pass with a    *)
(* prefix p that does not end in '_' derives uppercase(p) followed by "_"  *)
(* and that name.                                                          *)
(***************************************************************************)
C9_NameDerivation ==
    [][PassStep =>
         \A n \in FlagNames :
            DOMAIN flags[n].Annotations.m = {} =>
               /\ err' = NoErr => lookedUp'[n] # <<>>
               /\ lookedUp'[n] # <<>> =>
                     /\ pfxUsed' = "" => lookedUp'[n] = <<UpperSnake[n]>>
                     /\ (pfxUsed' # "" /\ ~HasTrailingUnderscore(pfxUsed')) =>
                           lookedUp'[n] =
                              <<ToUpper(pfxUsed') \o "_" \o UpperSnake[n]>>]_vars

\* a pass with the prefix foo showed FOO_COUNT_FANCY for the flag count-fancy
C9_Witness ==
    /\ passes = 1
    /\ pfxUsed = "foo"
    /\ lookedUp["count-fancy"] = <<"FOO_COUNT_FANCY">>
    /\ flags["count-fancy"].Usage = "a fancy count [FOO_COUNT_FANCY]"
    /\ DOMAIN flags["count-fancy"].Annotations.m = {}

(***************************************************************************)
(* C10: no call changes the default a flag shows in help (DefValue): it is *)
(* the default the flag was declared with, also after a pass took the      *)
(* flag's value from the environment.                                      *)
(***************************************************************************)
C10_DefaultKept ==
    \A n \in FlagNames : flags[n].DefValue = Declared[n].DefValue

\* a pass took a value that differs from the default from the environment
C10_Witness ==
    /\ passes >= 1
    /\ \E n \in FlagNames :
          /\ lookedUp[n] # <<>>
          /\ LookupEnv(env, lookedUp[n][1])
          /\ flags[n].Value = SetResult(flags[n].Type, env[lookedUp[n][1]])
          /\ flags[n].Value # flags[n].DefValue
          /\ flags[n].DefValue = Declared[n].Value

(***************************************************************************)
(* C11: a pass that panics on a bool flag f does not roll back: every flag *)
(* visited before f has the value and the usage the pass wrote for it,     *)
(* while f and every flag after f in the visit have value and usage (and   *)
(* everything else) unchanged: f's usage gets no bracket suffix and f's    *)
(* value is not set.                                                       *)
(***************************************************************************)
\* the pass with prefix pfx panics when it visits the flag n
BadBoolAt(n, pfx) ==
    /\ ~Disabled(flags[n])
    /\ flags[n].Type = "bool"
    /\ LookupEnv(env, EnvName(flags[n], NormalizePfx(pfx)))
    /\ ~ParseBoolOk(env[EnvName(flags[n], NormalizePfx(pfx))])

\* the step wrote to the flag n what a pass with prefix pfx writes to a flag
\* it visits without panicking
WrittenBy(n, pfx) ==
    LET f == flags[n]
        envName == EnvName(f, NormalizePfx(pfx))
    IN IF Disabled(f)
       THEN flags'[n] = f
       ELSE /\ flags'[n].Usage =
                  f.Usage \o " [" \o envName
                    \o (IF LookupEnv(env, envName) THEN " " \o env[envName] ELSE "")
                    \o "]"
            /\ flags'[n].Value =
                  IF LookupEnv(env, envName) /\ SetOk(f.Type, env[envName])
                  THEN SetResult(f.Type, env[envName]) ELSE f.Value

C11_NoRollback ==
    [][(PassStep /\ err' = ErrInvalidBoolFlagValue) =>
          \E i \in 1..Len(VisitOrder) :
             /\ BadBoolAt(VisitOrder[i], pfxUsed')
             /\ \A j \in 1..(i - 1) :
                   /\ ~BadBoolAt(VisitOrder[j], pfxUsed')
                   /\ WrittenBy(VisitOrder[j], pfxUsed')
             /\ \A j \in i..Len(VisitOrder) :
                   flags'[VisitOrder[j]] = flags[VisitOrder[j]]]_vars

\* a pass set count-fancy from FOO_ONCE=2, its custom-named variable, and
\* then panicked on the bool flag once, which the prefix gives the same name
C11_Witness ==
    /\ err = ErrInvalidBoolFlagValue
    /\ failed = "ParseFlagSet"
    /\ passes = 1
    /\ lookedUp["once"] = <<"FOO_ONCE">>
    /\ flags["count-fancy"].Value = "2"
    /\ flags["count-fancy"].Usage = "a fancy count [FOO_ONCE 2]"
    /\ flags["once"].Value = "false"
    /\ flags["once"].Usage = "perform the thing once and exit"
    /\ flags["url"].Value = "http://127.0.0.1:8080"
    /\ flags["url"].Usage = "set the url"
    /\ lookedUp["url"] = <<>>

(***************************************************************************)
(* C12: passes over the same flag set, with the same prefix and            *)
(* environment, mutate the usage of a flag once: after any pass that       *)
(* returns, the first or a repeated one, the usage of every flag that is   *)
(* not disabled is the usage it was declared with followed by exactly one  *)
(* bracket suffix, and a repeated pass leaves its value as the first pass  *)
(* left it.                                                                *)
(***************************************************************************)
\* the bracket suffix a pass appends for the name it looked up
BracketSuffix(envName) ==
    " [" \o envName
         \o (IF LookupEnv(env, envName) THEN " " \o env[envName] ELSE "")
         \o "]"

C12_UsageMutatedOnce ==
    [][(PassStep /\ err' = NoErr) =>
          \A n \in FlagNames :
             ~Disabled(flags[n]) =>
                /\ lookedUp'[n] # <<>>
                /\ flags'[n].Usage =
                      Declared[n].Usage \o BracketSuffix(lookedUp'[n][1])
                /\ passes >= 1 => flags'[n].Value = flags[n].Value]_vars

====
